---------------------------- MODULE Spec2Model ----------------------------
(***************************************************************************)
(* A model of RustPython's sequence iterator and callable iterator         *)
(* (vm/src/builtins/iter.rs) and of the _random.Random engine              *)
(* (vm/src/stdlib/random.rs).                                              *)
(*                                                                         *)
(* The three components share no state.  Each has its own specification    *)
(* (SpecSeq / SpecSeqAny, SpecCall, SpecRand); a specification leaves the  *)
(* variables of the other components at their initial values.              *)
(***************************************************************************)
EXTENDS Integers, Sequences, FiniteSets, TLC

(***************************************************************************)
(* Bounds of the model.                                                    *)
(***************************************************************************)
\* longest subject of a sequence iterator
MaxLen == 2
\* number of threads that share one iterator
MaxThreads == 2
\* advances started on one sequence iterator
MaxAdv == 5
\* longest subject, and advances started, where the subject is arbitrary and may change
MaxAnyLen == 1
MaxAnyAdv == 2

Threads == 1..MaxThreads

(***************************************************************************)
(* Python objects as far as the iterators look at them.                    *)
(*                                                                         *)
(* An exception is its class and the place that created it ("by"): the     *)
(* subject's own code, or the iterator (vm.new_stop_iteration()).  The     *)
(* second field is what makes "returned unchanged" observable.             *)
(***************************************************************************)
NoExc == [cls |-> "", by |-> ""]
NoVal == 0 - 1

Exc(cls, by) == [cls |-> cls, by |-> by]

\* PyResult: Ok(value) or Err(exception)
Ok(v) == [kind |-> "Ok", val |-> v, exc |-> NoExc]
Err(e) == [kind |-> "Err", val |-> NoVal, exc |-> e]

\* the sequences over S of length at most n
SeqsUpTo(S, n) == UNION {[1..k -> S] : k \in 0..n}

\* the exception classes the model uses; LookupMiss is a subclass of IndexError
ExcClasses == {"IndexError", "LookupMiss", "StopIteration", "ValueError"}

\* e.isinstance(&vm.ctx.exceptions.index_error): the class or a subclass of it
IsInstanceIndexError(e) == e.cls \in {"IndexError", "LookupMiss"}

\* vm.new_stop_iteration()
NewStopIteration == Exc("StopIteration", "iter")

\* no lookup was made
NoLookup == [kind |-> "None", val |-> NoVal, exc |-> NoExc]

IsStop(r) == r.kind = "Err" /\ r.exc.cls = "StopIteration"

(***************************************************************************)
(* State.                                                                  *)
(***************************************************************************)
VARIABLES
    \* PySequenceIterator
    position,      \* AtomicCell<isize>
    obj,           \* the subject: what __getitem__(i) yields at each index 0..Len-1
    reversed,      \* bool
    seqPc,         \* per thread: "idle", or "getitem" between fetch_add and the lookup
    seqPos,        \* per thread: the local `pos` of next()
    seqLog,        \* history: the advances that returned, in the order they returned
    getitemCalls,  \* history: the indices __getitem__ was called with, in order
    seqStopped,    \* history: some advance has returned StopIteration
    hasLen,        \* the subject's class has a __len__
    hintLog        \* history: the length_hint calls that returned, in order

VARIABLES
    \* PyCallableIterator
    done,          \* AtomicCell<bool>
    callable,      \* the callable: what its 1st, 2nd, ... invocation yields
    sentinel,      \* the sentinel value
    invocations,   \* history: how often the callable has been invoked
    callPc,        \* per thread: "idle", "invoke" (done was read false), "compare"
    callRet,       \* per thread: the local `ret` of next()
    callLog,       \* history: the advances that returned, in the order they returned
    lateInvocations \* history: how often the callable was invoked while done was true

VARIABLES
    \* PyRandom, and the build it runs in
    bigEndian,      \* cfg!(target_endian = "big")
    overflowChecks, \* the build checks arithmetic overflow (debug) or wraps (release)
    rng,            \* per engine: the PyRng behind the PyMutex
    lockOwner,      \* per engine: the thread holding the PyMutex, 0 when free
    engineOf,       \* per thread: the engine it calls
    randPc,         \* per thread: where it is in random / seed / getrandbits
    randLocal,      \* per thread: the locals of the call in progress
    hist,           \* per engine, history: the calls that took effect, in order
    ctorArg         \* per engine, history: the x its constructor was passed

seqVars == <<position, obj, reversed, seqPc, seqPos, seqLog, getitemCalls, seqStopped,
             hasLen, hintLog>>
callVars == <<done, callable, sentinel, invocations, callPc, callRet, callLog,
              lateInvocations>>
randVars == <<bigEndian, overflowChecks, rng, lockOwner, engineOf, randPc, randLocal, hist,
              ctorArg>>

vars == <<seqVars, callVars, randVars>>

notSeqVars == <<callVars, randVars>>
notCallVars == <<seqVars, randVars>>
notRandVars == <<seqVars, callVars>>

\* the state of a component that a specification does not run
SeqUnused ==
    /\ position = 0 /\ obj = <<>> /\ reversed = FALSE
    /\ seqPc = [t \in Threads |-> "idle"]
    /\ seqPos = [t \in Threads |-> [pos |-> 0, afterStop |-> FALSE]]
    /\ seqLog = <<>> /\ getitemCalls = <<>> /\ seqStopped = FALSE
    /\ hasLen = TRUE /\ hintLog = <<>>

CallUnused ==
    /\ done = FALSE /\ callable = <<>> /\ sentinel = 0 /\ invocations = 0
    /\ callPc = [t \in Threads |-> "idle"]
    /\ callRet = [t \in Threads |-> NoLookup]
    /\ callLog = <<>>
    /\ lateInvocations = 0

RandUnused ==
    /\ bigEndian = FALSE /\ overflowChecks = FALSE
    /\ rng = <<>> /\ lockOwner = <<>> /\ engineOf = <<>>
    /\ randPc = <<>> /\ randLocal = <<>> /\ hist = <<>> /\ ctorArg = <<>>

(***************************************************************************)
(* PySequenceIterator (iter.rs 15-80)                                      *)
(***************************************************************************)

\* The subject's __getitem__ as vm.call_method sees it: the cell at the index,
\* and IndexError raised by the subject outside 0..Len-1.
GetItem(o, pos) ==
    IF 0 <= pos /\ pos < Len(o) THEN o[pos + 1]
    ELSE Err(Exc("IndexError", "subject"))

\* (a slip: the forward cursor starts one past the first index)
NewForwardPositionOne == 0 + 1

\* new_forward: position 0
NewForwardPosition == 0

\* (a slip: the reverse cursor starts at len, not len - 1)
NewReversedPositionLen(len) == len

\* new_reversed: position len - 1
NewReversedPosition(len) == len - 1

\* let step: isize = if self.reversed { -1 } else { 1 };
Step(rev) == IF rev THEN 0 - 1 ELSE 1

\* (a slip: every error of the lookup is taken for the end of the iteration)
ConvertLookupAnyError(r) ==
    IF r.kind = "Err" THEN Err(NewStopIteration) ELSE r

\* (a slip: a load without the add, so the next caller fetches the same value)
FetchAddLost(cell, step) == cell

\* self.position.fetch_add(step): the new value of the cell (the old one is returned).
\* isize wraps at 2^63; no run within MaxAdv advances comes near it.
FetchAdd(cell, step) == cell + step

\* if pos >= 0
PosValid(pos) == pos >= 0

\* the match on the lookup's result
ConvertLookup(r) ==
    IF r.kind = "Err" /\ IsInstanceIndexError(r.exc)
    THEN Err(NewStopIteration)
    ELSE r

\* advances started so far
SeqStarted == Len(seqLog) + Cardinality({t \in Threads : seqPc[t] = "getitem"})

\* an advance returns: the history gets the caller, the position it fetched, what
\* the lookup gave (NoLookup when none was made), what the advance returned, and
\* whether the advance started after some advance had returned StopIteration
SeqReturn(t, pos, raw, ret, after) ==
    /\ seqLog' = Append(seqLog, [t |-> t, pos |-> pos, raw |-> raw, ret |-> ret,
                                  afterStop |-> after])
    /\ seqStopped' = (seqStopped \/ IsStop(ret))

\* next(), first half: the fetch_add and the test of pos >= 0.  The position that
\* was fetched is local to the caller; a negative one returns at once.
SeqFetch(t) ==
    /\ seqPc[t] = "idle"
    /\ SeqStarted < MaxAdv
    /\ LET pos == position IN
        /\ position' = FetchAdd(position, Step(reversed))
        /\ IF PosValid(pos)
           THEN /\ seqPc' = [seqPc EXCEPT ![t] = "getitem"]
                /\ seqPos' = [seqPos EXCEPT ![t] = [pos |-> pos, afterStop |-> seqStopped]]
                /\ UNCHANGED <<seqLog, seqStopped>>
           ELSE /\ SeqReturn(t, pos, NoLookup, Err(NewStopIteration), seqStopped)
                /\ UNCHANGED <<seqPc, seqPos>>
    /\ UNCHANGED <<obj, reversed, getitemCalls, hasLen, hintLog>>
    /\ UNCHANGED notSeqVars

\* next(), second half: the lookup and the conversion of its result
SeqLookup(t) ==
    /\ seqPc[t] = "getitem"
    /\ LET pos == seqPos[t].pos IN
        /\ getitemCalls' = Append(getitemCalls, pos)
        /\ SeqReturn(t, pos, GetItem(obj, pos), ConvertLookup(GetItem(obj, pos)),
                     seqPos[t].afterStop)
    /\ seqPc' = [seqPc EXCEPT ![t] = "idle"]
    /\ UNCHANGED <<position, obj, reversed, seqPos, hasLen, hintLog>>
    /\ UNCHANGED notSeqVars

\* A well-behaved subject of fixed length n: index i holds the item 10 * (i + 1)
ItemAt(i) == 10 * (i + 1)
ListOf(n) == [i \in 1..n |-> Ok(ItemAt(i - 1))]

SeqIdle ==
    /\ seqPc = [t \in Threads |-> "idle"]
    /\ seqPos = [t \in Threads |-> [pos |-> 0, afterStop |-> FALSE]]
    /\ seqLog = <<>>
    /\ getitemCalls = <<>>
    /\ seqStopped = FALSE
    /\ hintLog = <<>>

\* new_forward(obj) or new_reversed(obj, len(obj)) over a list of fixed length
InitSeq ==
    /\ CallUnused /\ RandUnused
    /\ \E n \in 0..MaxLen : obj = ListOf(n)
    /\ hasLen = TRUE
    /\ reversed \in BOOLEAN
    /\ position = IF reversed THEN NewReversedPosition(Len(obj)) ELSE NewForwardPosition
    /\ SeqIdle

NextSeq == \E t \in Threads : SeqFetch(t) \/ SeqLookup(t)

SpecSeq == InitSeq /\ [][NextSeq]_vars

(***************************************************************************)
(* length_hint (iter.rs 67-79) on an iterator over a list of fixed length, *)
(* or over an object that has __getitem__ but no __len__.                  *)
(***************************************************************************)
\* length_hint calls made on one iterator, and advances started on it
MaxHints == 2
MaxHintAdv == 2

\* vm._len(&self.obj): None when the class has no __len__, else the length
VmLen(o, has) == IF has THEN Ok(Len(o)) ELSE NoLookup

\* vm.new_type_error("sequence has no __len__ method")
NoLenTypeError == Exc("TypeError", "iter")

\* (a slip: the forward hint counts from the position before the last advance)
HintOffByOne(rev, pos, len) ==
    IF rev THEN Ok(pos + 1)
    ELSE IF len.kind = "None" THEN Err(NoLenTypeError)
    ELSE Ok(len.val - pos + 1)

\* the hint from the loaded position: pos + 1, or len - pos, or the TypeError
Hint(rev, pos, len) ==
    IF rev THEN Ok(pos + 1)
    ELSE IF len.kind = "None" THEN Err(NoLenTypeError)
    ELSE Ok(len.val - pos)

\* self.position.load(): the value of the cell after the load
LoadLeaves(cell) == cell

\* length_hint(): let pos = self.position.load(); ... Ok(hint).  The history gets
\* the position loaded, the position the call left, the advances started before
\* it, and what it returned.
LengthHint(t) ==
    /\ Len(hintLog) < MaxHints
    /\ position' = LoadLeaves(position)
    /\ hintLog' = Append(hintLog,
           [pos |-> position, posAfter |-> position', started |-> SeqStarted,
            ret |-> Hint(reversed, position, VmLen(obj, hasLen))])
    /\ UNCHANGED <<obj, reversed, seqPc, seqPos, seqLog, getitemCalls, seqStopped, hasLen>>
    /\ UNCHANGED notSeqVars

\* the lengths of the subjects length_hint is called over
HintLens == (0..MaxLen) \cup {5}

InitSeqHint ==
    /\ CallUnused /\ RandUnused
    /\ \E n \in HintLens : obj = ListOf(n)
    /\ hasLen \in BOOLEAN
    /\ reversed \in BOOLEAN
    /\ position = IF reversed THEN NewReversedPosition(Len(obj)) ELSE NewForwardPosition
    /\ SeqIdle

NextSeqHint ==
    \E t \in Threads :
        (SeqStarted < MaxHintAdv /\ SeqFetch(t)) \/ SeqLookup(t) \/ LengthHint(t)

SpecSeqHint == InitSeqHint /\ [][NextSeqHint]_vars

(***************************************************************************)
(* The sequence iterator over any subject.  A cell of the subject is what  *)
(* __getitem__ does at that index: return a value or raise an exception of *)
(* its own.  The subject is shared (obj: PyObjectRef), so other code may   *)
(* append to it or pop from it between any two steps of an advance, and    *)
(* new_reversed takes whatever len its caller passes.                      *)
(***************************************************************************)
Cells == {Ok(10)} \cup {Err(Exc(c, "subject")) : c \in ExcClasses}

CtorLens == (0 - 1)..(MaxAnyLen + 1)

InitSeqAny ==
    /\ CallUnused /\ RandUnused
    /\ obj \in SeqsUpTo(Cells, MaxAnyLen)
    /\ hasLen = TRUE
    /\ reversed \in BOOLEAN
    /\ \E len \in CtorLens :
          position = IF reversed THEN NewReversedPosition(len) ELSE NewForwardPosition
    /\ SeqIdle

SubjectAppend(c) ==
    /\ Len(obj) < MaxAnyLen
    /\ obj' = Append(obj, c)
    /\ UNCHANGED <<position, reversed, seqPc, seqPos, seqLog, getitemCalls, seqStopped,
                   hasLen, hintLog>>
    /\ UNCHANGED notSeqVars

SubjectPop ==
    /\ Len(obj) > 0
    /\ obj' = SubSeq(obj, 1, Len(obj) - 1)
    /\ UNCHANGED <<position, reversed, seqPc, seqPos, seqLog, getitemCalls, seqStopped,
                   hasLen, hintLog>>
    /\ UNCHANGED notSeqVars

NextSeqAny ==
    \/ \E t \in Threads : (SeqStarted < MaxAnyAdv /\ SeqFetch(t)) \/ SeqLookup(t)
    \/ \E c \in Cells : SubjectAppend(c)
    \/ SubjectPop

SpecSeqAny == InitSeqAny /\ [][NextSeqAny]_vars

(***************************************************************************)
(* PyCallableIterator (iter.rs 84-126)                                     *)
(*                                                                         *)
(* The callable is opaque: its i-th invocation yields callable[i], a value *)
(* or an exception of its own.  BadEq is a value whose comparison with the *)
(* sentinel raises.                                                        *)
(***************************************************************************)
\* advances started on one callable iterator
MaxCallAdv == 3

BadEq == 99
CallValues == {1, 2}
CallOutcomes ==
    {Ok(v) : v \in CallValues \cup {BadEq}} \cup {Err(Exc("ValueError", "callable"))}

\* vm.bool_eq(&ret, &self.sentinel): PyResult<bool>, here Ok(1) / Ok(0) or the
\* exception the comparison raised
BoolEq(v, s) ==
    IF v = BadEq THEN Err(Exc("ValueError", "eq"))
    ELSE Ok(IF v = s THEN 1 ELSE 0)

\* (a slip: the latch is read but not honoured)
DoneLoadIgnored(d) == FALSE

\* self.done.load()
DoneLoad(d) == d

\* (a slip: the latch is flipped, not set)
DoneStoreFlip(d) == ~d

\* self.done.store(true): the value of the cell after the store
DoneStore(d) == TRUE

\* (a slip: an error ends the iteration)
DoneAfterErrorSet(d) == TRUE

\* the `?` on the invocation and on the comparison: the error is returned at
\* once, no store is made
DoneAfterError(d) == d

\* advances started so far
CallStarted == Len(callLog) + Cardinality({t \in Threads : callPc[t] # "idle"})

CallReturn(t, ret, invoked) ==
    callLog' = Append(callLog, [t |-> t, ret |-> ret, invoked |-> invoked])

\* next(): if self.done.load() { return Err(stop_iteration) }
CallLoad(t) ==
    /\ callPc[t] = "idle"
    /\ CallStarted < MaxCallAdv
    /\ IF DoneLoad(done)
       THEN /\ CallReturn(t, Err(NewStopIteration), FALSE)
            /\ UNCHANGED callPc
       ELSE /\ callPc' = [callPc EXCEPT ![t] = "invoke"]
            /\ UNCHANGED callLog
    /\ UNCHANGED <<done, callable, sentinel, invocations, callRet, lateInvocations>>
    /\ UNCHANGED notCallVars

\* let ret = self.callable.invoke((), vm)?;
CallInvoke(t) ==
    /\ callPc[t] = "invoke"
    /\ LET r == callable[invocations + 1] IN
        /\ invocations' = invocations + 1
        /\ lateInvocations' = lateInvocations + (IF done THEN 1 ELSE 0)
        /\ IF r.kind = "Err"
           THEN /\ CallReturn(t, r, TRUE)
                /\ done' = DoneAfterError(done)
                /\ callPc' = [callPc EXCEPT ![t] = "idle"]
                /\ UNCHANGED callRet
           ELSE /\ callRet' = [callRet EXCEPT ![t] = r]
                /\ callPc' = [callPc EXCEPT ![t] = "compare"]
                /\ UNCHANGED <<callLog, done>>
    /\ UNCHANGED <<callable, sentinel>>
    /\ UNCHANGED notCallVars

\* if vm.bool_eq(&ret, &self.sentinel)? { done.store(true); Err(stop) } else { Ok(ret) }
CallCompare(t) ==
    /\ callPc[t] = "compare"
    /\ LET eq == BoolEq(callRet[t].val, sentinel) IN
        IF eq.kind = "Err"
        THEN /\ CallReturn(t, eq, TRUE)
             /\ done' = DoneAfterError(done)
        ELSE IF eq.val = 1
        THEN /\ done' = DoneStore(done)
             /\ CallReturn(t, Err(NewStopIteration), TRUE)
        ELSE /\ CallReturn(t, callRet[t], TRUE)
             /\ UNCHANGED done
    /\ callPc' = [callPc EXCEPT ![t] = "idle"]
    /\ UNCHANGED <<callable, sentinel, invocations, callRet, lateInvocations>>
    /\ UNCHANGED notCallVars

\* PyCallableIterator::new(callable, sentinel)
InitCall ==
    /\ SeqUnused /\ RandUnused
    /\ done = FALSE
    /\ callable \in [1..MaxCallAdv -> CallOutcomes]
    /\ sentinel \in CallValues
    /\ invocations = 0
    /\ callPc = [t \in Threads |-> "idle"]
    /\ callRet = [t \in Threads |-> NoLookup]
    /\ callLog = <<>>
    /\ lateInvocations = 0

NextCall == \E t \in Threads : CallLoad(t) \/ CallInvoke(t) \/ CallCompare(t)

SpecCall == InitCall /\ [][NextCall]_vars

(***************************************************************************)
(* PyRandom (random.rs 17-131)                                             *)
(*                                                                         *)
(* A u32 is the set of its one-bits (bit 0 the least significant), so that *)
(* all 32 bits are kept.  A BigInt is a sign and the base-2^32 digits of   *)
(* its magnitude, least significant first, without trailing zero digits.   *)
(***************************************************************************)
\* calls started on one engine
MaxRandOps == 2

Engines == {1, 2}

U32Bits == 32
AllOnes == 0..(U32Bits - 1)

\* the u32 of a number below 2^31
Bits(x) == {i \in 0..30 : (x \div (2 ^ i)) % 2 = 1}

\* the number of a u32 below 2^31
NatOf(w) == LET RECURSIVE Sum(_)
                Sum(S) == IF S = {} THEN 0
                          ELSE LET i == CHOOSE j \in S : TRUE IN 2 ^ i + Sum(S \ {i})
            IN Sum(w)

\* w >> s for 0 <= s < 32
Shr(w, s) == {i - s : i \in {j \in w : j >= s}}

Zero == [sign |-> "NoSign", data |-> <<>>]

\* the argument of seed() when none, or None, is passed
NoneArg == [sign |-> "None", data |-> <<>>]

RECURSIVE Normalize(_)
Normalize(d) ==
    IF d # <<>> /\ d[Len(d)] = {} THEN Normalize(SubSeq(d, 1, Len(d) - 1)) ELSE d

\* BigInt::from(u32)
FromU32(w) == IF w = {} THEN Zero ELSE [sign |-> "Plus", data |-> <<w>>]

\* num-bigint's BigInt::from_biguint: with Sign::NoSign the magnitude is dropped
FromBigUint(sign, data) ==
    IF sign = "NoSign" \/ data = <<>> THEN Zero ELSE [sign |-> sign, data |-> data]

\* BigInt::from_slice(sign, slice) = from_biguint(sign, BigUint::from_slice(slice))
FromSlice(sign, slice) == FromBigUint(sign, Normalize(slice))

\* n.abs()
Abs(n) == [n EXCEPT !.sign = IF @ = "Minus" THEN "Plus" ELSE @]

\* to_u32_digits(): the digits of the magnitude, none for zero
ToU32Digits(n) == n.data

Reverse(q) == [i \in 1..Len(q) |-> q[Len(q) + 1 - i]]

(***************************************************************************)
(* The two generators are crates of their own (rand's StdRng, mt19937).    *)
(* What PyRandom relies on is kept: a generator is a deterministic machine *)
(* whose state is fixed by what seeded it (the entropy read, or the key)   *)
(* and by the number of 32-bit draws made since.  The words it puts out    *)
(* are taken from a pool that holds the extremes (all ones, zero, only the *)
(* top bit and the bottom bit) and mixed patterns.                         *)
(***************************************************************************)
WordPool == << AllOnes, {0, 31}, Bits(305419896), {}, {1, 2, 3, 5, 8, 13, 21, 30}, Bits(99) >>

EntropyPool == {Bits(7), Bits(1000)}

\* what a generator's stream depends on: every word of the key, and its place
WordHash(w) == Cardinality(w) + (IF 0 \in w THEN 1 ELSE 0)

RECURSIVE KeyHash(_)
KeyHash(key) ==
    IF key = <<>> THEN 0
    ELSE Len(key) * WordHash(key[Len(key)]) + KeyHash(SubSeq(key, 1, Len(key) - 1))

NoRng == [tag |-> "", key |-> <<>>, idx |-> 0]

\* PyRng::default(): PyRng::Std(Box::new(StdRng::from_entropy()))
StdFromEntropy(ent) == [tag |-> "Std", key |-> <<ent>>, idx |-> 0]

\* PyRng::MT(Box::new(mt19937::MT19937::new_with_slice_seed(key)))
MTNewWithSliceSeed(key) == [tag |-> "MT", key |-> key, idx |-> 0]

\* next_u32(): the word drawn
NextU32Word(r) ==
    WordPool[((KeyHash(r.key) + r.idx + (IF r.tag = "MT" THEN 0 ELSE 3)) % Len(WordPool)) + 1]

\* next_u32(): the state after the draw
NextU32State(r) == [r EXCEPT !.idx = @ + 1]

\* (a slip: the sign of the seed goes into the key as a word of its own)
SeedKeySigned(n, big) ==
    LET digits == ToU32Digits(n)
        key == IF big THEN Reverse(digits) ELSE digits
    IN  IF n.sign = "Minus" THEN <<AllOnes>> \o key
        ELSE IF key = <<>> THEN <<{}>> ELSE key

\* seed(Some(n)): the key
SeedKey(n, big) ==
    LET digits == ToU32Digits(Abs(n))
        key == IF big THEN Reverse(digits) ELSE digits
    IN  IF key = <<>> THEN <<{}>> ELSE key

\* (a slip: the seed is not used, as in PyRandom::new)
NewRngUnseeded(n, big, ent) == StdFromEntropy(ent)

\* (a slip: seed() without a value keys the deterministic generator with [0])
NewRngAlwaysMT(n, big, ent) ==
    IF n = NoneArg THEN MTNewWithSliceSeed(<<{}>>)
    ELSE MTNewWithSliceSeed(SeedKey(n, big))

\* seed(): the match on n.flatten()
NewRng(n, big, ent) ==
    IF n = NoneArg THEN StdFromEntropy(ent)
    ELSE MTNewWithSliceSeed(SeedKey(n, big))

\* 32usize.wrapping_sub(k) as u32 is (32 - k) mod 2^32.  k stands for the usize
\* it is congruent to mod 2^64 (a k below 0 is a usize that wrapped).  For the k of
\* the model the amount is below 32 exactly when 1 <= k <= 32.
ShiftOverflows(k) == ~(1 <= k /\ k <= 32)

\* the low five bits of the shift amount: what a u32 shift uses when the build
\* does not check the amount
ShiftMasked(k) == (32 - k) % 32

Panic == [kind |-> "panic", word |-> {}]

\* (a slip: the word is shifted by k, not by 32 - k)
GenU32ShiftK(w, k, checks) == [kind |-> "word", word |-> Shr(w, k % 32)]

\* gen_u32: rng.next_u32() >> 32usize.wrapping_sub(k) as u32, w being the draw
GenU32(w, k, checks) ==
    IF ShiftOverflows(k)
    THEN IF checks THEN Panic ELSE [kind |-> "word", word |-> Shr(w, ShiftMasked(k))]
    ELSE [kind |-> "word", word |-> Shr(w, 32 - k)]

\* let words = (k - 1) / 8 + 1;
WordCount(k) == (k - 1) \div 8 + 1

\* results of a call
FloatRes(a, b) == [kind |-> "float", sign |-> "Plus", data |-> <<a, b>>]
IntRes(n) == [kind |-> "int", sign |-> n.sign, data |-> n.data]
UnitRes == [kind |-> "unit", sign |-> "NoSign", data |-> <<>>]
PanicRes == [kind |-> "panic", sign |-> "NoSign", data |-> <<>>]

\* the inputs
SeedArgs ==
    { Zero,
      [sign |-> "Plus", data |-> <<Bits(42)>>],
      [sign |-> "Minus", data |-> <<Bits(42)>>],
      [sign |-> "Plus", data |-> <<Bits(1), Bits(2)>>] }

KValues == {0, 1, 8, 32, 33, 64}

IdleLocal ==
    [op |-> "", n |-> NoneArg, k0 |-> 0, k |-> 0, wordarray |-> <<>>, filled |-> 0,
     draws |-> 0, acc |-> <<>>, before |-> NoRng, newRng |-> NoRng]

\* calls started on engine e
RandStarted(e) ==
    Len(hist[e]) + Cardinality({t \in Threads : engineOf[t] = e /\ randPc[t] \notin {"idle", "panicked"}})

\* the call of thread t takes effect: it enters the history of its engine, the
\* guard is dropped, and a panic ends the thread
RandFinish(t, res, after, wordarray, draws) ==
    LET e == engineOf[t]
        l == randLocal[t] IN
    /\ hist' = [hist EXCEPT ![e] = Append(@,
                  [op |-> l.op, n |-> l.n, k |-> l.k0, res |-> res, draws |-> draws,
                   before |-> l.before, after |-> after, wordarray |-> wordarray])]
    /\ rng' = [rng EXCEPT ![e] = after]
    /\ lockOwner' = [lockOwner EXCEPT ![e] = 0]
    /\ randPc' = [randPc EXCEPT ![t] = IF res.kind = "panic" THEN "panicked" ELSE "idle"]
    /\ randLocal' = [randLocal EXCEPT ![t] = IdleLocal]

\* (a slip: the engine is not guarded, a caller never waits)
TryLockAlways(owner) == TRUE

\* self.rng.lock(): the caller goes on when no thread holds the PyMutex
TryLock(owner) == owner = 0

\* random(): let mut rng = self.rng.lock();
RandomLock(t) ==
    LET e == engineOf[t] IN
    /\ randPc[t] = "idle"
    /\ RandStarted(e) < MaxRandOps
    /\ TryLock(lockOwner[e])
    /\ lockOwner' = [lockOwner EXCEPT ![e] = t]
    /\ randPc' = [randPc EXCEPT ![t] = "random"]
    /\ randLocal' = [randLocal EXCEPT ![t] = [IdleLocal EXCEPT !.op = "random", !.before = rng[e]]]
    /\ UNCHANGED <<bigEndian, overflowChecks, rng, engineOf, hist, ctorArg>>
    /\ UNCHANGED notRandVars

\* mt19937::gen_res53: a = next_u32() >> 5, b = next_u32() >> 6, and the double
\* (a * 2^26 + b) / 2^53, which a and b determine
RandomDraw(t) ==
    LET e == engineOf[t]
        l == randLocal[t]
        w == NextU32Word(rng[e])
        acc == Append(l.acc, Shr(w, IF l.acc = <<>> THEN 5 ELSE 6)) IN
    /\ randPc[t] = "random"
    /\ IF Len(acc) = 2
       THEN RandFinish(t, FloatRes(acc[1], acc[2]), NextU32State(rng[e]), <<>>, l.draws + 1)
       ELSE /\ rng' = [rng EXCEPT ![e] = NextU32State(@)]
            /\ randLocal' = [randLocal EXCEPT ![t] = [l EXCEPT !.acc = acc, !.draws = @ + 1]]
            /\ UNCHANGED <<lockOwner, randPc, hist>>
    /\ UNCHANGED <<bigEndian, overflowChecks, engineOf, ctorArg>>
    /\ UNCHANGED notRandVars

\* getrandbits(k): the lock, and for k > 32 the zeroed word array
GetrandbitsLock(t, k) ==
    LET e == engineOf[t] IN
    /\ randPc[t] = "idle"
    /\ RandStarted(e) < MaxRandOps
    /\ TryLock(lockOwner[e])
    /\ lockOwner' = [lockOwner EXCEPT ![e] = t]
    /\ randPc' = [randPc EXCEPT ![t] = IF k <= 32 THEN "bits32" ELSE "bitsLoop"]
    /\ randLocal' = [randLocal EXCEPT ![t] =
          [IdleLocal EXCEPT !.op = "getrandbits", !.k0 = k, !.k = k, !.before = rng[e],
                            !.wordarray = IF k <= 32 THEN <<>>
                                          ELSE [i \in 1..WordCount(k) |-> {}]]]
    /\ UNCHANGED <<bigEndian, overflowChecks, rng, engineOf, hist, ctorArg>>
    /\ UNCHANGED notRandVars

\* if k <= 32 { return gen_u32(k).into(); }
Bits32Draw(t) ==
    LET e == engineOf[t]
        l == randLocal[t]
        g == GenU32(NextU32Word(rng[e]), l.k, overflowChecks) IN
    /\ randPc[t] = "bits32"
    /\ RandFinish(t, IF g.kind = "panic" THEN PanicRes ELSE IntRes(FromU32(g.word)),
                  NextU32State(rng[e]), <<>>, l.draws + 1)
    /\ UNCHANGED <<bigEndian, overflowChecks, engineOf, ctorArg>>
    /\ UNCHANGED notRandVars

\* one turn of `for word in it { *word = gen_u32(k); k -= 32; }`, and after the
\* last one BigInt::from_slice(Sign::NoSign, &wordarray).  The array is filled
\* from its first word, from its last one on a big-endian host (it.rev()).
BitsLoopDraw(t) ==
    LET e == engineOf[t]
        l == randLocal[t]
        g == GenU32(NextU32Word(rng[e]), l.k, overflowChecks)
        at == IF bigEndian THEN Len(l.wordarray) - l.filled ELSE l.filled + 1
        arr == [l.wordarray EXCEPT ![at] = g.word]
        after == NextU32State(rng[e]) IN
    /\ randPc[t] = "bitsLoop"
    /\ IF g.kind = "panic"
       THEN RandFinish(t, PanicRes, after, l.wordarray, l.draws + 1)
       ELSE IF l.k < 32 /\ overflowChecks
       THEN RandFinish(t, PanicRes, after, arr, l.draws + 1)
       ELSE IF l.filled + 1 = Len(l.wordarray)
       THEN RandFinish(t, IntRes(FromSlice("NoSign", arr)), after, arr, l.draws + 1)
       ELSE /\ rng' = [rng EXCEPT ![e] = after]
            /\ randLocal' = [randLocal EXCEPT ![t] =
                  [l EXCEPT !.wordarray = arr, !.k = @ - 32, !.filled = @ + 1, !.draws = @ + 1]]
            /\ UNCHANGED <<lockOwner, randPc, hist>>
    /\ UNCHANGED <<bigEndian, overflowChecks, engineOf, ctorArg>>
    /\ UNCHANGED notRandVars

\* seed(n): let new_rng = match n.flatten() { ... }, made before the lock is taken
SeedBuild(t, n) ==
    LET e == engineOf[t] IN
    /\ randPc[t] = "idle"
    /\ RandStarted(e) < MaxRandOps
    /\ \E ent \in EntropyPool :
          randLocal' = [randLocal EXCEPT ![t] =
              [IdleLocal EXCEPT !.op = "seed", !.n = n, !.newRng = NewRng(n, bigEndian, ent)]]
    /\ randPc' = [randPc EXCEPT ![t] = "seedStore"]
    /\ UNCHANGED <<bigEndian, overflowChecks, rng, lockOwner, engineOf, hist, ctorArg>>
    /\ UNCHANGED notRandVars

\* *self.rng.lock() = new_rng;
SeedStore(t) ==
    LET e == engineOf[t]
        l == randLocal[t] IN
    /\ randPc[t] = "seedStore"
    /\ TryLock(lockOwner[e])
    /\ hist' = [hist EXCEPT ![e] = Append(@,
                  [op |-> "seed", n |-> l.n, k |-> 0, res |-> UnitRes, draws |-> 0,
                   before |-> rng[e], after |-> l.newRng, wordarray |-> <<>>])]
    /\ rng' = [rng EXCEPT ![e] = l.newRng]
    /\ randPc' = [randPc EXCEPT ![t] = "idle"]
    /\ randLocal' = [randLocal EXCEPT ![t] = IdleLocal]
    /\ UNCHANGED <<bigEndian, overflowChecks, lockOwner, engineOf, ctorArg>>
    /\ UNCHANGED notRandVars

\* (a slip: the constructor seeds the engine with x, as seed(x) does)
PyRandomNewSeeded(x, ent) == NewRng(x, FALSE, ent)

\* PyRandom::new(cls, _x, vm): rng: PyMutex::default(), which is PyRng::default()
PyRandomNew(x, ent) == StdFromEntropy(ent)

\* a process that is big- or little-endian and checks overflow or does not, with
\* no call under way
RandIdle ==
    /\ bigEndian \in BOOLEAN
    /\ overflowChecks \in BOOLEAN
    /\ lockOwner = [e \in Engines |-> 0]
    /\ randPc = [t \in Threads |-> "idle"]
    /\ randLocal = [t \in Threads |-> IdleLocal]
    /\ hist = [e \in Engines |-> <<>>]

\* one engine, called by all threads
InitRand ==
    /\ SeqUnused /\ CallUnused
    /\ RandIdle
    /\ ctorArg = [e \in Engines |-> NoneArg]
    /\ \E ent \in EntropyPool :
          rng = [e \in Engines |-> IF e = 1 THEN PyRandomNew(ctorArg[e], ent) ELSE NoRng]
    /\ engineOf = [t \in Threads |-> 1]

RandCall(t) ==
    \/ RandomLock(t)
    \/ \E k \in KValues : GetrandbitsLock(t, k)
    \/ \E n \in SeedArgs \cup {NoneArg} : SeedBuild(t, n)

RandStep(t) == RandomDraw(t) \/ Bits32Draw(t) \/ BitsLoopDraw(t) \/ SeedStore(t)

NextRand == \E t \in Threads : RandCall(t) \/ RandStep(t)

SpecRand == InitRand /\ [][NextRand]_vars

\* One engine, constructed with or without an argument x
CtorArgs == {NoneArg, Zero, [sign |-> "Plus", data |-> <<Bits(42)>>]}

InitRandNew ==
    /\ SeqUnused /\ CallUnused
    /\ RandIdle
    /\ \E x \in CtorArgs : ctorArg = [e \in Engines |-> IF e = 1 THEN x ELSE NoneArg]
    /\ \E ent \in EntropyPool :
          rng = [e \in Engines |-> IF e = 1 THEN PyRandomNew(ctorArg[e], ent) ELSE NoRng]
    /\ engineOf = [t \in Threads |-> 1]

SpecRandNew == InitRandNew /\ [][NextRand]_vars

\* Two engines of one build, each with its own caller: thread 1 calls engine 1 as
\* it likes, thread 2 gives engine 2 the calls engine 1 was given, in the same
\* order.
InitRandPair ==
    /\ SeqUnused /\ CallUnused
    /\ RandIdle
    /\ ctorArg = [e \in Engines |-> NoneArg]
    /\ \E e1, e2 \in EntropyPool :
          rng = [e \in Engines |-> PyRandomNew(ctorArg[e], IF e = 1 THEN e1 ELSE e2)]
    /\ engineOf = [t \in Threads |-> IF t = 2 THEN 2 ELSE 1]

\* the call of engine 1 that engine 2 is given next
ToRepeat == hist[1][Len(hist[2]) + 1]

RepeatCall ==
    /\ Len(hist[2]) < Len(hist[1])
    /\ \/ ToRepeat.op = "random" /\ RandomLock(2)
       \/ ToRepeat.op = "getrandbits" /\ GetrandbitsLock(2, ToRepeat.k)
       \/ ToRepeat.op = "seed" /\ SeedBuild(2, ToRepeat.n)

NextRandPair == RandCall(1) \/ RandStep(1) \/ RepeatCall \/ RandStep(2)

SpecRandPair == InitRandPair /\ [][NextRandPair]_vars

(***************************************************************************)
(* Properties of the sequence iterator over a list of fixed length         *)
(* (SpecSeq).                                                              *)
(***************************************************************************)

\* the threads that have started an advance
SeqCallers == {seqLog[i].t : i \in DOMAIN seqLog} \cup {t \in Threads : seqPc[t] = "getitem"}

SingleCaller == Cardinality(SeqCallers) <= 1

InFlight == {t \in Threads : seqPc[t] = "getitem"}

\* no two advances, returned or in flight, fetched the same position
DistinctFetches ==
    /\ \A i, j \in DOMAIN seqLog : i # j => seqLog[i].pos # seqLog[j].pos
    /\ \A t \in InFlight : \A i \in DOMAIN seqLog : seqLog[i].pos # seqPos[t].pos
    /\ \A t, u \in InFlight : t # u => seqPos[t].pos # seqPos[u].pos

\* C1: a forward iterator over a subject of fixed length N, used by one caller,
\* returns on its i-th advance (i = 1..N) the item at index i-1, and every advance
\* after the N-th signals StopIteration.
C1_ForwardInOrderThenStop ==
    (~reversed /\ SingleCaller) =>
        \A i \in DOMAIN seqLog :
            seqLog[i].ret = IF i <= Len(obj) THEN obj[i] ELSE Err(NewStopIteration)

C1_Witness ==
    /\ ~reversed /\ SingleCaller
    /\ Len(obj) >= 2
    /\ Len(seqLog) >= Len(obj) + 2

\* C2: a reverse iterator built by new_reversed(obj, N) over a subject of fixed
\* length N returns, to one caller, the items at N-1, ..., 0 in that order and
\* StopIteration afterwards; whoever calls, __getitem__ is never called with a
\* negative index, and not at all when N = 0.
C2_ReverseInOrderNoNegativeLookup ==
    reversed =>
        /\ SingleCaller =>
              \A i \in DOMAIN seqLog :
                  seqLog[i].ret = IF i <= Len(obj) THEN obj[Len(obj) - i + 1]
                                  ELSE Err(NewStopIteration)
        /\ \A j \in DOMAIN getitemCalls : getitemCalls[j] >= 0
        /\ Len(obj) = 0 => getitemCalls = <<>>

C2_Witness ==
    /\ reversed /\ SingleCaller
    /\ Len(obj) >= 2
    /\ Len(seqLog) >= Len(obj) + 2

C2_WitnessEmpty ==
    reversed /\ Len(obj) = 0 /\ Len(seqLog) >= 2

\* every thread has had an advance return StopIteration, and none is in flight
AllSawExhaustion ==
    /\ \A t \in Threads : seqPc[t] = "idle"
    /\ \A t \in Threads : \E i \in DOMAIN seqLog : seqLog[i].t = t /\ IsStop(seqLog[i].ret)

\* the advances that returned the item of position p
ReturnedAt(p) == {i \in DOMAIN seqLog : seqLog[i].ret.kind = "Ok" /\ seqLog[i].pos = p}

\* C3: with several threads advancing one iterator over a subject of fixed length N,
\* no two advances fetch the same position, every item returned is the item of
\* the position fetched, no position's item is returned twice, and once every
\* thread has seen exhaustion each of 0..N-1 has been returned exactly once.
C3_ExactlyOncePerPosition ==
    /\ DistinctFetches
    /\ \A i \in DOMAIN seqLog :
          seqLog[i].ret.kind = "Ok" =>
              /\ seqLog[i].pos \in 0..(Len(obj) - 1)
              /\ seqLog[i].ret = obj[seqLog[i].pos + 1]
              /\ Cardinality(ReturnedAt(seqLog[i].pos)) = 1
    /\ AllSawExhaustion =>
          \A p \in 0..(Len(obj) - 1) : Cardinality(ReturnedAt(p)) = 1

C3_Witness ==
    /\ AllSawExhaustion
    /\ Len(obj) >= 2
    /\ \A t \in Threads : \E i \in DOMAIN seqLog : seqLog[i].t = t /\ seqLog[i].ret.kind = "Ok"

(***************************************************************************)
(* Properties of length_hint (SpecSeqHint).                                *)
(***************************************************************************)

\* C11: length_hint leaves position as it is and returns position + 1 on a
\* reverse iterator, len(subject) - position on a forward one, and the TypeError
\* when the subject has no __len__; so a forward iterator over N items returns
\* N - j after j advances: 5 and then 4 over five items.
C11_HintFromPosition ==
    \A i \in DOMAIN hintLog :
        LET h == hintLog[i] IN
        /\ h.posAfter = h.pos
        /\ reversed => h.ret = Ok(h.pos + 1)
        /\ (~reversed /\ ~hasLen) => h.ret = Err(NoLenTypeError)
        /\ (~reversed /\ hasLen) =>
              /\ h.ret = Ok(Len(obj) - h.pos)
              /\ h.ret = Ok(Len(obj) - h.started)
              /\ (Len(obj) = 5 /\ h.started = 0) => h.ret.val = 5
              /\ (Len(obj) = 5 /\ h.started = 1) => h.ret.val = 4

C11_Witness ==
    /\ ~reversed /\ hasLen /\ Len(obj) = 5
    /\ Len(hintLog) = 2
    /\ hintLog[1].started = 0 /\ hintLog[1].ret = Ok(5)
    /\ hintLog[2].started = 1 /\ hintLog[2].ret = Ok(4)

\* the items that advances fetching from position pos on will still return
Remaining(pos) ==
    Cardinality({p \in 0..(Len(obj) - 1) : IF reversed THEN p <= pos ELSE p >= pos})

\* C19: over a subject of fixed length, length_hint returns a number that is not
\* negative and is the number of items further advances will return, also after
\* the iterator has signalled exhaustion.
C19_HintIsRemaining ==
    hasLen =>
        \A i \in DOMAIN hintLog :
            LET h == hintLog[i] IN
            /\ h.ret.kind = "Ok"
            /\ h.ret.val >= 0
            /\ h.ret.val = Remaining(h.pos)

(***************************************************************************)
(* Properties of the sequence iterator over any subject (SpecSeqAny).      *)
(***************************************************************************)

\* C9: a lookup that raises an IndexError (or a subclass of it) makes the advance
\* return a StopIteration of the iterator's own; any other outcome of the lookup,
\* a value or an error, a StopIteration of the subject included, is returned as it
\* is; no advance returns an IndexError.
C9_IndexErrorBecomesStopElseUnchanged ==
    \A i \in DOMAIN seqLog :
        LET e == seqLog[i] IN
        /\ (e.raw.kind = "Err" /\ IsInstanceIndexError(e.raw.exc)) =>
              e.ret = Err(NewStopIteration)
        /\ (e.raw.kind = "Ok" \/ (e.raw.kind = "Err" /\ ~IsInstanceIndexError(e.raw.exc))) =>
              e.ret = e.raw
        /\ ~(e.ret.kind = "Err" /\ IsInstanceIndexError(e.ret.exc))

C9_Witness ==
    /\ \E i \in DOMAIN seqLog :
          /\ seqLog[i].raw.kind = "Err" /\ IsInstanceIndexError(seqLog[i].raw.exc)
          /\ seqLog[i].ret = Err(NewStopIteration)
    /\ \E i \in DOMAIN seqLog : seqLog[i].raw = Err(Exc("StopIteration", "subject"))

\* C10: once an advance has returned StopIteration, every advance that starts
\* later returns StopIteration too, whatever the subject does and whatever len
\* the reverse iterator was built with.
C10_StopIsFinal ==
    \A i \in DOMAIN seqLog : seqLog[i].afterStop => IsStop(seqLog[i].ret)

(***************************************************************************)
(* Properties of the callable iterator (SpecCall).                         *)
(***************************************************************************)

CallCallers == {callLog[i].t : i \in DOMAIN callLog} \cup {t \in Threads : callPc[t] # "idle"}

CallSingleCaller == Cardinality(CallCallers) <= 1

\* the invocations whose result equals the sentinel
SentinelHits == {i \in DOMAIN callable : callable[i] = Ok(sentinel)}

\* the index of the first of them, 0 when there is none
FirstHit ==
    IF SentinelHits = {} THEN 0
    ELSE CHOOSE i \in SentinelHits : \A j \in SentinelHits : i <= j

\* C4: with one caller, the advances before the first result equal to the
\* sentinel return the callable's results (an error of the callable, or of the
\* comparison, as that error); the advance that gets the sentinel signals
\* StopIteration and sets done; every later advance signals StopIteration
\* without invoking the callable, so the callable is invoked FirstHit times.
C4_StopsAtFirstSentinel ==
    CallSingleCaller =>
        /\ \A i \in DOMAIN callLog :
              IF FirstHit = 0 \/ i < FirstHit
              THEN /\ callLog[i].invoked
                   /\ callLog[i].ret =
                         IF callable[i] = Ok(BadEq) THEN Err(Exc("ValueError", "eq"))
                         ELSE callable[i]
              ELSE IF i = FirstHit
              THEN callLog[i].invoked /\ callLog[i].ret = Err(NewStopIteration)
              ELSE ~callLog[i].invoked /\ callLog[i].ret = Err(NewStopIteration)
        /\ done = (FirstHit # 0 /\ Len(callLog) >= FirstHit)
        /\ FirstHit # 0 => invocations <= FirstHit
        /\ done => invocations = FirstHit

C4_Witness ==
    /\ CallSingleCaller
    /\ FirstHit = 2
    /\ Len(callLog) >= FirstHit + 1
    /\ invocations = FirstHit

\* the advance that returns in this step, when one does
Returning == callLog'[Len(callLog')]

\* a step of the iterator under any number of callers
LatchStep ==
    /\ done => done'
    /\ \A t \in Threads : (callPc[t] # "invoke" /\ callPc'[t] = "invoke") => ~done
    /\ invocations' # invocations =>
          /\ invocations' = invocations + 1
          /\ \E t \in Threads : callPc[t] = "invoke" /\ callPc'[t] # "invoke"
    /\ (done /\ Len(callLog') > Len(callLog) /\ callPc[Returning.t] = "idle") =>
          /\ Returning.ret = Err(NewStopIteration)
          /\ ~Returning.invoked
          /\ invocations' = invocations

\* the advances that have read done = false and not yet invoked the callable
ToInvoke == {t \in Threads : callPc[t] = "invoke"}

\* C15: under any interleaving done goes from false to true only; an advance that
\* starts when done is true returns StopIteration and does not invoke the
\* callable; the callable is invoked only by an advance that read done = false,
\* once by each, so after done is set at most one invocation per other thread.
C15_LatchUnderConcurrency ==
    /\ [](lateInvocations + (IF done THEN Cardinality(ToInvoke) ELSE 0) <= MaxThreads - 1)
    /\ [][LatchStep]_vars

C15_Witness ==
    /\ done
    /\ lateInvocations >= 1
    /\ \A t \in Threads : callPc[t] = "idle"

\* the error the i-th invocation ends an advance with, if it does
ErrorOf(i) ==
    IF callable[i].kind = "Err" THEN callable[i]
    ELSE IF callable[i] = Ok(BadEq) THEN Err(Exc("ValueError", "eq"))
    ELSE NoLookup

\* the advances that returned an error of the callable or of the comparison
ErrorReturns == {i \in DOMAIN callLog : callLog[i].ret.kind = "Err" /\ callLog[i].ret.exc.by # "iter"}

\* C16: an advance whose invocation, or comparison, raises returns that error as
\* it is and leaves done as it was; with one caller done is then false and the
\* next advance invokes the callable again.
C16_ErrorDoesNotExhaust ==
    /\ [](CallSingleCaller =>
             \A i \in ErrorReturns :
                 /\ callLog[i].invoked
                 /\ callLog[i].ret = ErrorOf(i)
                 /\ (i = Len(callLog) /\ callPc = [t \in Threads |-> "idle"]) => ~done
                 /\ (i + 1 \in DOMAIN callLog) => callLog[i + 1].invoked)
    /\ [][(Len(callLog') > Len(callLog) /\ Returning.ret.kind = "Err"
                /\ Returning.ret.exc.by # "iter") => done' = done]_vars

C16_Witness ==
    /\ CallSingleCaller
    /\ Len(callLog) = 3
    /\ callLog[1].ret = Err(Exc("ValueError", "callable"))
    /\ callLog[2].ret = Err(Exc("ValueError", "eq"))
    /\ callLog[3].invoked /\ callLog[3].ret.kind = "Ok"
    /\ ~done

(***************************************************************************)
(* Properties of the random engine (SpecRandPair, SpecRand).               *)
(***************************************************************************)

\* the last seed() among the first j calls of engine 1, 0 when there is none
LastSeed(j) ==
    LET S == {i \in 1..j : hist[1][i].op = "seed"} IN
    IF S = {} THEN 0 ELSE CHOOSE i \in S : \A m \in S : m <= i

\* the first j calls of engine 1 hold a seed(integer) with no seed() after it
SeededByInteger(j) == LastSeed(j) # 0 /\ hist[1][LastSeed(j)].n # NoneArg

\* C5: two engines given the same calls: from a seed(integer) on, and until a
\* seed() without a value, each call returns the same result on both engines and
\* leaves both in the same state, whatever entropy each was constructed with.
C5_SameSeedSameDraws ==
    \A j \in DOMAIN hist[2] :
        /\ hist[2][j].op = hist[1][j].op
        /\ hist[2][j].n = hist[1][j].n
        /\ hist[2][j].k = hist[1][j].k
        /\ SeededByInteger(j) =>
              /\ hist[2][j].res = hist[1][j].res
              /\ hist[2][j].after = hist[1][j].after

C5_Witness ==
    /\ Len(hist[1]) = 2 /\ Len(hist[2]) = 2
    /\ hist[1][1].before # hist[2][1].before
    /\ hist[1][1].op = "seed" /\ hist[1][1].n = [sign |-> "Plus", data |-> <<Bits(42)>>]
    /\ hist[1][2].op = "random"
    /\ hist[2][2].res = hist[1][2].res

\* the getrandbits(k) calls that took effect on engine 1
BitsCalls(lo, hi) ==
    {i \in DOMAIN hist[1] :
        hist[1][i].op = "getrandbits" /\ lo <= hist[1][i].k /\ hist[1][i].k <= hi}

\* the largest k of the model
MaxK == CHOOSE k \in KValues : \A m \in KValues : m <= k

\* a non-negative integer below 2^k, by its digits
BelowPow2(res, k) ==
    /\ res.kind = "int"
    /\ res.sign # "Minus"
    /\ \A d \in DOMAIN res.data : \A b \in res.data[d] : 32 * (d - 1) + b < k

\* C6: for 1 <= k <= 32, getrandbits(k) makes exactly one 32-bit draw and returns
\* an integer in [0, 2^k - 1]; and in every state of the engine the next draw,
\* shifted for any such k, is such an integer.
C6_SmallBitsInRange ==
    /\ \A i \in BitsCalls(1, 32) :
          LET c == hist[1][i] IN
          /\ c.draws = 1
          /\ c.after = NextU32State(c.before)
          /\ BelowPow2(c.res, c.k)
          /\ Len(c.res.data) <= 1
          /\ (c.k <= 30 /\ c.res.data # <<>>) => NatOf(c.res.data[1]) <= 2 ^ c.k - 1
    /\ lockOwner[1] = 0 =>
          LET w == NextU32Word(rng[1]) IN
          \A k \in 1..32 :
              /\ GenU32(w, k, overflowChecks).kind = "word"
              /\ \A b \in GenU32(w, k, overflowChecks).word : b < k

C6_Witness ==
    \E i \in BitsCalls(8, 8) :
        /\ hist[1][i].res.data # <<>>
        /\ NatOf(hist[1][i].res.data[1]) = 255

\* ceil(k / 32): the words that k bits need
WordCountCeil(k) == (k - 1) \div 32 + 1

\* the i-th draw from generator state r
DrawAt(r, i) == NextU32Word([r EXCEPT !.idx = @ + i - 1])

\* the bits the last word keeps: k mod 32, and 32 when that is 0
LastBits(k) == IF k % 32 = 0 THEN 32 ELSE k % 32

\* the integer whose words, least significant first, are ceil(k/32) successive
\* draws from state r, the last one cut to LastBits(k) bits
WordsOfDraws(r, k) ==
    LET n == WordCountCeil(k) IN
    FromBigUint("Plus", Normalize([i \in 1..n |->
        IF i < n THEN DrawAt(r, i) ELSE Shr(DrawAt(r, i), 32 - LastBits(k))]))

\* C7: for k > 32, a getrandbits(k) that returns gives the non-negative integer
\* below 2^k whose 32-bit words, least significant first, are successive draws,
\* all of them whole but the last, which keeps k mod 32 bits (32 when that is 0).
C7_LargeBitsAreTheDraws ==
    \A i \in BitsCalls(33, MaxK) :
        LET c == hist[1][i] IN
        c.res.kind = "int" =>
            /\ BelowPow2(c.res, c.k)
            /\ c.res = IntRes(WordsOfDraws(c.before, c.k))

\* C8: for k > 32, a getrandbits(k) that returns has made exactly ceil(k/32)
\* draws: the engine is in the state that many draws lead to, and the result has
\* at most that many words.
C8_LargeBitsDrawCount ==
    \A i \in BitsCalls(33, MaxK) :
        LET c == hist[1][i] IN
        c.res.kind = "int" =>
            /\ c.draws = WordCountCeil(c.k)
            /\ c.after = [c.before EXCEPT !.idx = @ + WordCountCeil(c.k)]
            /\ Len(c.res.data) <= WordCountCeil(c.k)

(***************************************************************************)
(* Properties of the engine under concurrent callers (SpecRand).           *)
(***************************************************************************)

\* the threads between lock() and the end of random / getrandbits
Drawing == {t \in Threads : randPc[t] \in {"random", "bits32", "bitsLoop"}}

\* the place in the word array of the j-th word written
PlaceOf(j, len) == IF bigEndian THEN len - j + 1 ELSE j

\* what a call gives when it runs alone from generator state c.before
SequentialResult(c) ==
    IF c.op = "random"
    THEN /\ c.draws = 2
         /\ c.res = FloatRes(Shr(DrawAt(c.before, 1), 5), Shr(DrawAt(c.before, 2), 6))
    ELSE IF c.k <= 32
    THEN LET g == GenU32(DrawAt(c.before, 1), c.k, overflowChecks) IN
         /\ c.draws = 1
         /\ c.res = IF g.kind = "panic" THEN PanicRes ELSE IntRes(FromU32(g.word))
    ELSE /\ c.draws <= Len(c.wordarray)
         /\ c.res.kind = "int" =>
               /\ c.draws = Len(c.wordarray)
               /\ \A j \in 1..c.draws :
                     c.wordarray[PlaceOf(j, c.draws)] =
                        GenU32(DrawAt(c.before, j), c.k - 32 * (j - 1), overflowChecks).word
               /\ c.res = IntRes(FromSlice("NoSign", c.wordarray))

\* C12: the calls on one engine take effect one after the other: each starts from
\* the state the one before it left, a random() or getrandbits(k) uses draws
\* next to each other in the stream and returns what it returns when run alone,
\* a seed() leaves a whole new generator, and no two threads draw at once.
C12_CallsAreCriticalSections ==
    /\ \A t \in Drawing : lockOwner[1] = t
    /\ Cardinality(Drawing) <= 1
    /\ \A i \in DOMAIN hist[1] :
          LET c == hist[1][i] IN
          /\ c.before = IF i = 1 THEN [c.before EXCEPT !.tag = "Std", !.idx = 0]
                         ELSE hist[1][i - 1].after
          /\ c.op = "seed" =>
                \E ent \in EntropyPool : c.after = NewRng(c.n, bigEndian, ent)
          /\ c.op # "seed" =>
                /\ c.after = [c.before EXCEPT !.idx = @ + c.draws]
                /\ SequentialResult(c)
    /\ lockOwner[1] = 0 =>
          (hist[1] # <<>> => rng[1] = hist[1][Len(hist[1])].after)
    /\ \A t \in Drawing :
          rng[1] = [randLocal[t].before EXCEPT !.idx = @ + randLocal[t].draws]

\* one thread is between the two draws of random() while another has built a
\* new generator in seed() and waits for the guard
C12_Witness ==
    \E t, u \in Threads :
        /\ randPc[t] = "random" /\ randLocal[t].draws = 1
        /\ randPc[u] = "seedStore" /\ randLocal[u].n # NoneArg
        /\ lockOwner[1] = t

\* C13: random() and getrandbits(k) always return a value: no call ends in a
\* panic, and the shift amount 32 - k of a getrandbits(k) is one a u32 shift
\* takes (below 32).
C13_DrawsNeverPanic ==
    \A i \in DOMAIN hist[1] :
        LET c == hist[1][i] IN
        /\ c.op = "random" => c.res.kind = "float"
        /\ c.op = "getrandbits" => (c.res.kind = "int" /\ ~ShiftOverflows(c.k))

\* the variant of the engine that the calls made so far leave
VariantNow == IF hist[1] = <<>> THEN "Std" ELSE hist[1][Len(hist[1])].after.tag

\* C14: seed() without a value leaves the Std variant and seed(integer) the MT
\* variant, whatever the variant was; random() and getrandbits(k) leave the
\* variant they found, also while they are under way.
C14_VariantChangesOnlyInSeed ==
    /\ \A i \in DOMAIN hist[1] :
          LET c == hist[1][i] IN
          c.after.tag = IF c.op # "seed" THEN c.before.tag
                        ELSE IF c.n = NoneArg THEN "Std" ELSE "MT"
    /\ rng[1].tag = VariantNow

C14_Witness ==
    /\ Len(hist[1]) = 2
    /\ hist[1][1].op = "seed" /\ hist[1][1].n # NoneArg
    /\ hist[1][1].before.tag = "Std" /\ hist[1][1].after.tag = "MT"
    /\ hist[1][2].op \in {"random", "getrandbits"} /\ hist[1][2].res.kind # "panic"
    /\ rng[1].tag = "MT"

\* -n
Negate(n) ==
    [n EXCEPT !.sign = IF @ = "Plus" THEN "Minus" ELSE IF @ = "Minus" THEN "Plus" ELSE @]

\* the seed(integer) calls that took effect on engine 1
IntSeeds == {i \in DOMAIN hist[1] : hist[1][i].op = "seed" /\ hist[1][i].n # NoneArg}

\* C17: seed(n) leaves the MT generator keyed with the words of the magnitude of
\* n (in the order of the host), the one word 0 when n = 0, never with no word;
\* seed(n) and seed(-n) leave the same state, which draws the same words.
C17_SeedUsesMagnitude ==
    /\ \A i \in IntSeeds :
          LET c == hist[1][i] IN
          /\ c.after.tag = "MT" /\ c.after.idx = 0
          /\ c.after.key # <<>>
          /\ c.n.data = <<>> => c.after.key = <<{}>>
          /\ c.n.data # <<>> => c.after.key \in {c.n.data, Reverse(c.n.data)}
    /\ \A i, j \in IntSeeds :
          hist[1][i].n = Negate(hist[1][j].n) =>
              /\ hist[1][i].after = hist[1][j].after
              /\ NextU32Word(hist[1][i].after) = NextU32Word(hist[1][j].after)
    /\ \A n \in SeedArgs : \A ent \in EntropyPool :
          NewRng(n, bigEndian, ent) = NewRng(Negate(n), bigEndian, ent)

C17_Witness ==
    /\ Len(hist[1]) = 2
    /\ hist[1][1].op = "seed" /\ hist[1][1].n = [sign |-> "Plus", data |-> <<Bits(42)>>]
    /\ hist[1][2].op = "seed" /\ hist[1][2].n = [sign |-> "Minus", data |-> <<Bits(42)>>]
    /\ hist[1][2].after = hist[1][1].after

\* C18: getrandbits(0) makes one draw and returns 0.
C18_ZeroBitsIsZero ==
    \A i \in BitsCalls(0, 0) :
        /\ hist[1][i].draws = 1
        /\ hist[1][i].res = IntRes(Zero)

(***************************************************************************)
(* Properties of the construction of an engine (SpecRandNew).              *)
(***************************************************************************)

\* the states PyRng::default() can give
EntropyStates == {StdFromEntropy(ent) : ent \in EntropyPool}

\* C20: whatever x the constructor is passed, the engine starts as a Std
\* generator seeded from entropy alone, and it is an MT generator only after a
\* seed(integer) call.
C20_ConstructorIgnoresArgument ==
    /\ (hist[1] = <<>> /\ Drawing = {}) => rng[1] \in EntropyStates
    /\ hist[1] # <<>> => hist[1][1].before \in EntropyStates
    /\ rng[1].tag = "MT" => IntSeeds # {}

C20_Witness ==
    /\ ctorArg[1] = [sign |-> "Plus", data |-> <<Bits(42)>>]
    /\ Len(hist[1]) = 2
    /\ hist[1][1].op = "random" /\ hist[1][1].before.tag = "Std"
    /\ hist[1][2].op = "seed" /\ hist[1][2].n = ctorArg[1]
    /\ rng[1].tag = "MT"

=============================================================================
